---- MODULE Spec2Model ----
(***************************************************************************)
(* Payment callback, order creation and the order / user stores of the     *)
(* LeanCloud cloud-engine application (paymentCallback.js, createOrder.js). *)
(*                                                                         *)
(* A nullable / optional JavaScript value is modelled as a sequence of     *)
(* length 0 (undefined), 1 (the value) or 2 (null).  A string that goes    *)
(* into a signature is the sequence of its pieces: it is cut at every '&'  *)
(* and '=', which are pieces of their own, and a template literal is cut   *)
(* at its holes, so that two strings of the model are equal exactly when   *)
(* their pieces are.                                                       *)
(***************************************************************************)
EXTENDS Integers, Sequences, FiniteSets, TLC

\* ---------------------------------------------------------------- bounds
MaxCallbacks == 2      \* callback requests delivered in one behaviour
MaxCreates == 1        \* createOrder calls in one behaviour
MaxTime == 1           \* last value of the millisecond clock
MaxQueries == 1        \* queryOrder calls in one behaviour
MaxParams == 2         \* entries of a params object given to calculateSign

\* ------------------------------------------------------------ base values
Undefined == <<>>
Null == <<"null", "null">>
Some(v) == <<v>>

\* the invocations of handlePaymentCallback that are in progress at one time
Procs == {1, 2}

\* configuration (createOrder.js:30-31, paymentCallback.js:19), configured
YUNGOU_API_KEY == <<"API_KEY">>

PRICE_MAP == [lifetime |-> 6900]

\* users that have a _User record, and one id that has none
ExistingUsers == {"u1", "u2"}
GhostUser == "u3"

\* the provider's transaction reference of a payment
TransactionId == <<"tx1">>
Statuses == {"pending", "paid", "cancelled", "expired"}

\* the decimal digits of a number, as a template literal writes it
NumberToString(n) == <<"0", "1", "2", "3", "4", "5", "6", "7", "8", "9">>[n + 1]

\* `VIP_${currentUser.id}_${Date.now()}`
OutTradeNo(uid, t) == <<"VIP_", uid, "_", NumberToString(t)>>

\* a merchant order number the provider knows and the store does not
UnknownOutTradeNo == OutTradeNo(GhostUser, 0)

\* ------------------------------------------------------------- signature
\* a JavaScript object is the sequence of its <<key, value>> entries in
\* insertion order; its keys are distinct
ObjectKeys(params) == [i \in DOMAIN params |-> params[i][1]]

ValueOf(params, k) == params[CHOOSE i \in DOMAIN params : params[i][1] = k][2]

\* the key names in the order of their UTF-16 code units, which is the order
\* Array.prototype.sort() compares them in
KeyOrder == <<"attach", "out_trade_no", "sign", "total_fee", "transaction_id">>

Rank(k) == CHOOSE i \in DOMAIN KeyOrder : KeyOrder[i] = k

\* without the sort: the keys stay in insertion order
SortKeys_Unsorted(keys) == keys

\* Object.keys(params).sort(), line 26
SortKeys(keys) ==
  LET place(i) == Cardinality({j \in DOMAIN keys : Rank(keys[j]) < Rank(keys[i])}) + 1
  IN  [p \in DOMAIN keys |-> keys[CHOOSE i \in DOMAIN keys : place(i) = p]]

\* md5(...).digest('hex').toUpperCase(): a collision-free digest of its input
Md5HexUpper(str) == [preimage |-> str, altered |-> FALSE]

\* Array.prototype.join: the strings of `parts` in one string, `sep` between them
\* (ps is bound by \in so that parts is computed once)
Join(parts, sep) ==
  CHOOSE str \in
    { LET joined[n \in 0..Len(ps)] ==
            IF n = 0 THEN <<>>
            ELSE IF n = 1 THEN ps[1]
            ELSE joined[n - 1] \o <<sep>> \o ps[n]
      IN  joined[Len(ps)] : ps \in {parts} } : TRUE

\* (kept is bound by \in so that the sorted and filtered keys are computed once)
calculateSign(params, key) ==
  LET sortedKeys == SortKeys(ObjectKeys(params))
      filtered == SelectSeq(sortedKeys, LAMBDA k :
                    k # "sign" /\ ValueOf(params, k) # Some(<<>>)
                    /\ ValueOf(params, k) # Null /\ ValueOf(params, k) # Undefined)
      signStr(kept) == Join([i \in 1..Len(kept) |->
                               <<kept[i], "=">> \o ValueOf(params, kept[i])[1]], "&")
      fullStr(kept) == signStr(kept) \o <<"&", "key", "=">> \o key
  IN  CHOOSE sign \in {Md5HexUpper(fullStr(kept)) : kept \in {filtered}} : TRUE

\* the sign with one byte altered
Tamper(sign) == [sign EXCEPT !.altered = TRUE]

\* ------------------------------------------------------------ attachment
\* JSON.stringify({ userId, productType }) (createOrder.js:80-83)
EncodeAttach(uid, pt) ==
  [json |-> "object", userId |-> Some(uid), productType |-> Some(pt)]

\* the texts `{}`, `null` and one that is not JSON
AttachEmptyObject == [json |-> "object", userId |-> Undefined, productType |-> Undefined]
AttachNullText == [json |-> "null", userId |-> Undefined, productType |-> Undefined]
AttachNotJson == [json |-> "invalid", userId |-> Undefined, productType |-> Undefined]

\* JSON.parse(attach), line 67: the argument is made a string first, so
\* undefined is the text `undefined`, which is not JSON, and null is the
\* text `null`
JsonParseThrows(attach) ==
  attach = Undefined \/ (attach # Null /\ attach[1].json = "invalid")

\* `const { userId, productType } = attachData`, line 74, throws on null
DestructureThrows(attach) == attach = Null \/ attach[1].json = "null"

\* ------------------------------------------------------------------ state
VARIABLES
  now,      \* Date.now() / new Date(), in milliseconds
  orders,   \* class Order: sequence of records, objectId = index
  users,    \* class _User: userId -> entitlement fields
  cb,       \* one record per invocation of handlePaymentCallback in progress
  delivered, \* number of callback requests received so far
  view,     \* the calls of queryOrder so far: their number, the last call and its outcome, if it has one yet
  sig,      \* two calls of calculateSign: their arguments and what they returned
  failing,  \* the calls of the store can still fail: its fault is not repaired
  cr        \* one record per call of createOrder in progress

vars == <<now, orders, users, cb, delivered, view, sig, failing, cr>>

\* an invocation that has not been delivered yet
Idle ==
  [pc |-> "idle", body |-> Undefined,
   out_trade_no |-> Undefined, transaction_id |-> Undefined,
   userId |-> Undefined, productType |-> Undefined,
   order |-> Undefined, user |-> Undefined,
   res |-> "", log |-> ""]

\* the calls of createOrder that are in progress at one time
CreateProcs == 1..MaxCreates

\* a call of createOrder that has not started or has ended
IdleCreate ==
  [pc |-> "idle", currentUser |-> Undefined, productType |-> Undefined,
   amount |-> Undefined, outTradeNo |-> Undefined]

\* the order a previous run left in the store, in any of its statuses
InitialOrder(st) ==
  [orderId |-> "po", userId |-> "u1", productType |-> "lifetime",
   amount |-> PRICE_MAP["lifetime"], status |-> st, payMethod |-> "wxpay",
   outTradeNo |-> OutTradeNo("u1", 0),
   transactionId |-> IF st = "paid" THEN Some(<<"tx0">>) ELSE Undefined,
   paidAt |-> IF st = "paid" THEN Some(0) ELSE Undefined]

InitialUsers(st) ==
  [u \in ExistingUsers |->
    IF u = "u1" /\ st = "paid"
    THEN [vipType |-> Some("lifetime"), vipPurchaseTime |-> Some(0),
          vipExpireTime |-> Null, vipOrderIds |-> <<1>>]
    ELSE [vipType |-> Undefined, vipPurchaseTime |-> Undefined,
          vipExpireTime |-> IF u = "u1" THEN Some(0) ELSE Undefined,
          vipOrderIds |-> <<>>]]

\* calculateSign has not been called
NoSig == [a |-> <<>>, b |-> <<>>, key |-> <<>>, out |-> <<>>]

\* queryOrder has not been called
NoView == [n |-> 0, orderId |-> Undefined, currentUser |-> Undefined, out |-> Undefined]

\* the stored order was created, and stamped if it was paid, at time 0;
\* the clock has moved on since
Init ==
  /\ now = 1
  /\ \E st \in Statuses :
       /\ orders = <<InitialOrder(st)>>
       /\ users = InitialUsers(st)
  /\ cb = [p \in Procs |-> Idle]
  /\ delivered = 0
  /\ view = NoView
  /\ sig = NoSig
  /\ failing = TRUE
  /\ cr = [c \in CreateProcs |-> IdleCreate]

\* --------------------------------------------------------- callback inputs
SignedParams(body) ==
  << <<"out_trade_no", body.out_trade_no>>,
     <<"transaction_id", body.transaction_id>>,
     <<"total_fee", body.total_fee>> >>

\* the attach of a body: a text, null, or none
Attachments ==
  { Some(EncodeAttach("u1", "lifetime")), Some(EncodeAttach("u2", "monthly")),
    Some(EncodeAttach(GhostUser, "lifetime")),
    Some(AttachEmptyObject), Some(AttachNullText), Some(AttachNotJson),
    Null, Undefined }

\* what the provider signs: a payment it has taken for an order number
ProviderSign(no) ==
  calculateSign(<< <<"out_trade_no", Some(no)>>, <<"transaction_id", Some(TransactionId)>>,
                    <<"total_fee", Some(<<"6900">>)>> >>, YUNGOU_API_KEY)

Notification(no, a, s) ==
  [out_trade_no |-> Some(no), transaction_id |-> Some(TransactionId),
   total_fee |-> Some(<<"6900">>), attach |-> a, sign |-> Some(s)]

\* a body made from a notification by somebody who has seen it: it has no
\* transaction_id, and its total_fee is the text `6900&transaction_id=tx1`
Rejoined(no, a, s) ==
  [out_trade_no |-> Some(no), transaction_id |-> Undefined,
   total_fee |-> Some(<<"6900", "&", "transaction_id", "=">> \o TransactionId),
   attach |-> a, sign |-> Some(s)]

\* req.body of a delivery: a notification as the provider signed it, carrying
\* any attach; or one whose sign has a byte altered or was made for another
\* order number; or one whose signed fields were cut differently
Bodies(nos) ==
  { Notification(no, a, ProviderSign(no)) : no \in nos, a \in Attachments }
  \cup { Rejoined(no, Some(EncodeAttach("u1", "lifetime")), ProviderSign(no)) : no \in nos }
  \cup { Notification(no, Some(EncodeAttach("u1", "lifetime")), Tamper(ProviderSign(no))) :
            no \in nos }
  \cup { Notification(no, Some(EncodeAttach("u1", "lifetime")), ProviderSign(UnknownOutTradeNo)) :
            no \in nos \ {UnknownOutTradeNo} }

StoredNos == {orders[i].outTradeNo : i \in DOMAIN orders}

\* ------------------------------------------------------ handlePaymentCallback
Respond(p, token, msg) ==
  cb' = [cb EXCEPT ![p] = [Idle EXCEPT !.pc = "done", !.res = token, !.log = msg]]

\* without the handler of the outer try: the error escapes, nothing is sent
Catch_Rethrow(p, error) == Respond(p, "", error)

\* lines 133-136: the outer catch logs the error and sends FAIL
Catch(p, error) == Respond(p, "FAIL", error)

\* the slot of an invocation that has not started or has ended
Free(p) == cb[p].pc \in {"idle", "done"}

\* the request reaches the route; the handler has not run yet.  The handler
\* runs to its first await before the event loop takes the next request.
Deliver(p) ==
  /\ delivered < MaxCallbacks
  /\ Free(p)
  /\ \A q \in Procs : q < p => ~Free(q)
  /\ \A q \in Procs : cb[q].pc # "received"
  /\ \E body \in Bodies(StoredNos \cup {UnknownOutTradeNo}) :
       cb' = [cb EXCEPT ![p] = [Idle EXCEPT !.pc = "received", !.body = Some(body)]]
  /\ delivered' = delivered + 1
  /\ UNCHANGED <<now, orders, users, view, sig, failing, cr>>

\* `sign !== calcSign`, lines 52-58; the first rejects a missing sign only
SignMismatch_MissingOnly(body) == body.sign = Undefined

SignMismatch(body) ==
  LET calcSign == calculateSign(SignedParams(body), YUNGOU_API_KEY)
  IN  body.sign # Some(calcSign)

\* lines 41-79: signature, attach, and the order query is sent
VerifyAndParse(p) ==
  /\ cb[p].pc = "received"
  /\ LET body == cb[p].body[1]
     IN  IF SignMismatch(body)
         THEN Respond(p, "FAIL", "signFail")
         ELSE IF JsonParseThrows(body.attach)
         THEN Respond(p, "FAIL", "attachFail")
         ELSE IF DestructureThrows(body.attach)
         THEN Catch(p, "TypeError")
         ELSE cb' = [cb EXCEPT ![p] =
                [Idle EXCEPT !.pc = "findOrder",
                             !.out_trade_no = body.out_trade_no,
                             !.transaction_id = body.transaction_id,
                             !.userId = body.attach[1].userId,
                             !.productType = body.attach[1].productType,
                             !.log = "signOk"]]
  /\ UNCHANGED <<now, orders, users, delivered, view, sig, failing, cr>>

\* the query without its equalTo constraint
Matching_NoFilter(no) == DOMAIN orders

\* query.equalTo('outTradeNo', out_trade_no): the orders query.first may return
Matching(no) == {i \in DOMAIN orders : Some(orders[i].outTradeNo) = no}

\* Date.now() and new Date(): the clock is read, and has not run backwards
ReadClock(t) == t \in now..MaxTime /\ now' = t

\* the local order object after lines 94-96
MarkPaid(p, i, t) ==
  cb' = [cb EXCEPT ![p].pc = "saveOrder",
                   ![p].out_trade_no = Undefined,
                   ![p].transaction_id = Undefined,
                   ![p].order = Some([id |-> i, status |-> "paid",
                                      transactionId |-> cb[p].transaction_id,
                                      paidAt |-> Some(t)])]

\* without the test for an order that is already paid
OnOrderFound_NoPaidCheck(p, i) ==
  IF orders[i].status \in {"pending", "paid"}
  THEN \E t \in now..MaxTime : ReadClock(t) /\ MarkPaid(p, i, t)
  ELSE Respond(p, "SUCCESS", cb[p].log) /\ UNCHANGED now

\* without the test for a pending order
OnOrderFound_AnyUnpaid(p, i) ==
  IF orders[i].status = "paid"
  THEN Respond(p, "SUCCESS", "alreadyPaid") /\ UNCHANGED now
  ELSE \E t \in now..MaxTime : ReadClock(t) /\ MarkPaid(p, i, t)

\* the branch on currentStatus, lines 87-97, for the order query.first returned
OnOrderFound(p, i) ==
  IF orders[i].status = "paid"
  THEN Respond(p, "SUCCESS", "alreadyPaid") /\ UNCHANGED now
  ELSE IF orders[i].status = "pending"
  THEN \E t \in now..MaxTime : ReadClock(t) /\ MarkPaid(p, i, t)
  ELSE Respond(p, "SUCCESS", cb[p].log) /\ UNCHANGED now

\* lines 79-97: query.first answers; the order save is sent
FindOrder(p) ==
  /\ cb[p].pc = "findOrder"
  /\ IF Matching(cb[p].out_trade_no) = {}
     THEN Respond(p, "FAIL", "orderNotFound") /\ UNCHANGED now
     ELSE \E i \in Matching(cb[p].out_trade_no) : OnOrderFound(p, i)
  /\ UNCHANGED <<orders, users, delivered, view, sig, failing, cr>>

\* order.save(): the keys set on the local object are written to the store
OrderSaved(stored, local) ==
  [stored EXCEPT !.status = local.status,
                 !.transactionId = local.transactionId,
                 !.paidAt = local.paidAt]

\* the local order object after the save: only its id is read again
OrderRef(i) == [id |-> i, status |-> "", transactionId |-> Undefined, paidAt |-> Undefined]

\* lines 97-103: the order save is committed; the user query is sent
SaveOrder(p) ==
  /\ cb[p].pc = "saveOrder"
  /\ LET local == cb[p].order[1]
     IN  orders' = [orders EXCEPT ![local.id] = OrderSaved(@, local)]
  /\ cb' = [cb EXCEPT ![p].pc = "getUser", ![p].log = "orderPaid",
                       ![p].order = Some(OrderRef(cb[p].order[1].id))]
  /\ UNCHANGED <<now, users, delivered, view, sig, failing, cr>>

\* without the reset of vipExpireTime for a lifetime grant
GrantVip_KeepExpire(user, uid, productType, orderId, t) ==
  [id |-> uid, vipType |-> productType, vipPurchaseTime |-> Some(t),
   expireSet |-> FALSE,
   vipOrderIds |-> Append(user.vipOrderIds, orderId)]

\* lines 106-117: the fields set on the user object that userQuery.get returned
GrantVip(user, uid, productType, orderId, t) ==
  [id |-> uid, vipType |-> productType, vipPurchaseTime |-> Some(t),
   expireSet |-> (productType = Some("lifetime")),
   vipOrderIds |-> Append(user.vipOrderIds, orderId)]

\* lines 105 and 125-131: userQuery.get resolved with no user; the
\* inconsistency is logged, SUCCESS is sent
UserNotFound(p) == Respond(p, "SUCCESS", "userNotFound")

\* lines 103 and 133-136: userQuery.get rejected, as the get of a LeanCloud
\* query does for an id that has no object (error 101) and for an id that
\* is not a string; the outer catch sends FAIL
UserGetRejects(p) == Catch(p, "objectNotFound")

\* lines 103-127: userQuery.get answers; the user save is sent.  For an id
\* without a record the answer is one of the two the handler provides for.
GetUser(p) ==
  /\ cb[p].pc = "getUser"
  /\ LET uid == cb[p].userId
     IN  IF uid # Undefined /\ uid[1] \in DOMAIN users
         THEN \E t \in now..MaxTime :
                /\ ReadClock(t)
                /\ cb' = [cb EXCEPT ![p].pc = "saveUser",
                               ![p].userId = Undefined,
                               ![p].productType = Undefined,
                               ![p].order = Undefined,
                               ![p].user = Some(GrantVip(users[uid[1]], uid[1],
                                                cb[p].productType, cb[p].order[1].id, t))]
         ELSE (UserNotFound(p) \/ UserGetRejects(p)) /\ UNCHANGED now
  /\ UNCHANGED <<orders, users, delivered, view, sig, failing, cr>>

\* user.save(): the keys set on the local object are written to the store
UserSaved(stored, local) ==
  [vipType |-> local.vipType,
   vipPurchaseTime |-> local.vipPurchaseTime,
   vipExpireTime |-> IF local.expireSet THEN Null ELSE stored.vipExpireTime,
   vipOrderIds |-> local.vipOrderIds]

\* lines 119-131: the user save is committed; SUCCESS is sent
SaveUser(p) ==
  /\ cb[p].pc = "saveUser"
  /\ LET local == cb[p].user[1]
     IN  users' = [users EXCEPT ![local.id] = UserSaved(@, local)]
  /\ Respond(p, "SUCCESS", "vipGranted")
  /\ UNCHANGED <<now, orders, delivered, view, sig, failing, cr>>

\* ------------------------------------------------------------- createOrder
\* the properties every plain object inherits from Object.prototype
ObjectPrototype ==
  {"constructor", "toString", "toLocaleString", "valueOf", "hasOwnProperty",
   "isPrototypeOf", "propertyIsEnumerable", "__proto__",
   "__defineGetter__", "__defineSetter__", "__lookupGetter__", "__lookupSetter__"}

\* obj[k]: the own property, else the inherited one (a function or an
\* object), else undefined
Lookup(obj, k) ==
  IF k \in DOMAIN obj THEN Some(obj[k])
  ELSE IF k \in ObjectPrototype THEN Some(<<"Object.prototype", k>>)
  ELSE Undefined

\* lines 96-107: the order object that is saved
NewOrder(currentUser, productType, amount, outTradeNo) ==
  [orderId |-> "po", userId |-> currentUser, productType |-> productType,
   amount |-> amount, status |-> "pending", payMethod |-> "wxpay",
   outTradeNo |-> outTradeNo,
   transactionId |-> Undefined, paidAt |-> Undefined]

\* request.currentUser and request.params of a call, and the merchant id of
\* the environment it runs in: a good call, one for each way it is turned
\* down, and one for a product name that PRICE_MAP inherits
CreateRequests ==
  { [currentUser |-> Some("u1"), productType |-> Some("lifetime"), mchId |-> "MCH_ID"],
    [currentUser |-> Undefined, productType |-> Some("lifetime"), mchId |-> "MCH_ID"],
    [currentUser |-> Some("u1"), productType |-> Undefined, mchId |-> "MCH_ID"],
    [currentUser |-> Some("u1"), productType |-> Some(""), mchId |-> "MCH_ID"],
    [currentUser |-> Some("u1"), productType |-> Some("monthly"), mchId |-> "MCH_ID"],
    [currentUser |-> Some("u1"), productType |-> Some("constructor"), mchId |-> "MCH_ID"],
    [currentUser |-> Some("u1"), productType |-> Some("lifetime"),
     mchId |-> "YOUR_YUNGOU_MCH_ID"] }

\* lines 45-57: the call throws before it has read the clock
CreateRefused(r) ==
  \/ r.currentUser = Undefined
  \/ r.productType = Undefined \/ r.productType = Some("")
  \/ Lookup(PRICE_MAP, r.productType[1]) = Undefined
  \/ r.mchId = "YOUR_YUNGOU_MCH_ID"
  \/ YUNGOU_API_KEY = <<"YOUR_YUNGOU_API_KEY">>

\* lines 41-74: the checks, the order number, and the request to the provider
\* is sent
CreateOrder(c) ==
  /\ cr[c].pc = "idle"
  /\ \A d \in CreateProcs : d < c => cr[d].pc # "idle"
  /\ Len(orders) + Cardinality({d \in CreateProcs : cr[d].pc # "idle"}) < 1 + MaxCreates
  /\ \E r \in CreateRequests :
       IF CreateRefused(r)
       THEN UNCHANGED <<now, cr>>
       ELSE \E t \in now..MaxTime :
              /\ ReadClock(t)
              /\ cr' = [cr EXCEPT ![c] =
                     [pc |-> "axios", currentUser |-> r.currentUser,
                      productType |-> r.productType,
                      amount |-> Lookup(PRICE_MAP, r.productType[1]),
                      outTradeNo |-> Some(OutTradeNo(r.currentUser[1], t))]]
  /\ UNCHANGED <<orders, users, cb, delivered, view, sig, failing>>

\* what comes back from axios.post: response.data.code, or nothing when the
\* request is rejected
ProviderAnswers == {Some(0), Some(1), Undefined}

\* lines 74 and 89-91: the call throws and saves nothing
ProviderRefused(response) == response = Undefined \/ response[1] # 0

\* lines 74-107: the provider answers; the order save is sent
AxiosPost(c) ==
  /\ cr[c].pc = "axios"
  /\ \E response \in ProviderAnswers :
       IF ProviderRefused(response)
       THEN cr' = [cr EXCEPT ![c] = IdleCreate]
       ELSE cr' = [cr EXCEPT ![c].pc = "save"]
  /\ UNCHANGED <<now, orders, users, cb, delivered, view, sig, failing>>

\* lines 107-122: the order save is committed; the call returns
SaveNewOrder(c) ==
  /\ cr[c].pc = "save"
  /\ orders' = Append(orders, NewOrder(cr[c].currentUser[1], cr[c].productType[1],
                                        cr[c].amount[1], cr[c].outTradeNo[1]))
  /\ cr' = [cr EXCEPT ![c] = IdleCreate]
  /\ UNCHANGED <<now, users, cb, delivered, view, sig, failing>>

\* order.save rejects, line 107: the call throws and nothing is saved
SaveNewOrderFails(c) ==
  /\ failing
  /\ cr[c].pc = "save"
  /\ cr' = [cr EXCEPT ![c] = IdleCreate]
  /\ UNCHANGED <<now, orders, users, cb, delivered, view, sig, failing>>

\* -------------------------------------------------------------- queryOrder
\* Date.prototype.toISOString() of the time stamp t
ToISOString(t) == <<"ISO8601", t>>

\* the object returned at lines 55-60
OrderView(order) ==
  [status |-> order.status,
   productType |-> order.productType,
   amount |-> order.amount,
   paidAt |-> IF order.paidAt # Undefined THEN Some(ToISOString(order.paidAt[1])) ELSE Null]

\* the call throws the AV.Cloud.Error `message`
Thrown(message) == [thrown |-> message, value |-> Undefined]

Returned(value) == [thrown |-> "", value |-> Some(value)]

\* request.params.orderId and request.currentUser of a call: an id of the
\* store or one past it, or none; a user with a record, or nobody logged in
QueryRequests ==
  [orderId : {Some(i) : i \in 1..(Len(orders) + 1)} \cup {Undefined},
   currentUser : {Some(u) : u \in ExistingUsers} \cup {Undefined}]

\* without the equalTo('userId', currentUser) constraint of line 40
Owned_AnyUser(orderId, currentUser) == {i \in DOMAIN orders : i = orderId}

\* lines 38-42: the orders the query of objectId and userId matches
Owned(orderId, currentUser) ==
  {i \in DOMAIN orders : i = orderId /\ orders[i].userId = currentUser}

\* lines 27-34: the call throws before it asks the store
QueryRefused(r) == r.currentUser = Undefined \/ r.orderId = Undefined

RefusedOutcome(r) ==
  IF r.currentUser = Undefined THEN Thrown("notLoggedIn") ELSE Thrown("orderIdEmpty")

\* lines 44-60: the outcome of the call once query.first has answered
QueryOutcome(r) ==
  LET found == Owned(r.orderId[1], r.currentUser[1])
  IN  IF found = {} THEN Thrown("orderNotFound")
      ELSE Returned(OrderView(orders[CHOOSE i \in found : TRUE]))

\* a call of queryOrder is waiting for query.first
QueryPending == view.n > 0 /\ view.out = Undefined

\* lines 23-42: the checks; the order query is sent
QueryOrder ==
  /\ view.n < MaxQueries
  /\ ~QueryPending
  /\ \E r \in QueryRequests :
       view' = [n |-> view.n + 1, orderId |-> r.orderId, currentUser |-> r.currentUser,
                out |-> IF QueryRefused(r) THEN Some(RefusedOutcome(r)) ELSE Undefined]
  /\ UNCHANGED <<now, orders, users, cb, delivered, sig, failing, cr>>

\* lines 42-60: query.first answers; the call returns the view or throws
QueryFirst ==
  /\ QueryPending
  /\ view' = [view EXCEPT !.out = Some(QueryOutcome(view))]
  /\ UNCHANGED <<now, orders, users, cb, delivered, sig, failing, cr>>

\* lines 42 and 62-69: query.first rejects; the catch wraps the error and
\* the call throws it
QueryFirstFails ==
  /\ failing
  /\ QueryPending
  /\ view' = [view EXCEPT !.out = Some(Thrown("queryOrderFailed"))]
  /\ UNCHANGED <<now, orders, users, cb, delivered, sig, failing, cr>>

\* ------------------------------------------------------------ store errors
\* an awaited call of the LeanCloud store rejects (the store is unavailable,
\* the request times out): nothing is written, the outer catch takes over.
\* This can happen as long as the fault of the store is not repaired.

\* query.first rejects, line 79
FindOrderFails(p) ==
  /\ failing
  /\ cb[p].pc = "findOrder"
  /\ Catch(p, "findOrderFailed")
  /\ UNCHANGED <<now, orders, users, delivered, view, sig, failing, cr>>

\* the rejected save taken for a success
SaveOrderFails_Swallowed(p) ==
  /\ failing
  /\ cb[p].pc = "saveOrder"
  /\ Respond(p, "SUCCESS", "saveOrderFailed")
  /\ UNCHANGED <<now, orders, users, delivered, view, sig, failing, cr>>

\* order.save rejects, line 97
SaveOrderFails(p) ==
  /\ failing
  /\ cb[p].pc = "saveOrder"
  /\ Catch(p, "saveOrderFailed")
  /\ UNCHANGED <<now, orders, users, delivered, view, sig, failing, cr>>

\* userQuery.get rejects, line 103
GetUserFails(p) ==
  /\ failing
  /\ cb[p].pc = "getUser"
  /\ Catch(p, "getUserFailed")
  /\ UNCHANGED <<now, orders, users, delivered, view, sig, failing, cr>>

\* user.save rejects, line 119
SaveUserFails(p) ==
  /\ failing
  /\ cb[p].pc = "saveUser"
  /\ Catch(p, "saveUserFailed")
  /\ UNCHANGED <<now, orders, users, delivered, view, sig, failing, cr>>

\* ---------------------------------------------------- calculateSign alone
\* the params objects of at most MaxParams entries: the keys the callback
\* signs, in any insertion order, each with a text, '', null or undefined
SignValues == {Some(<<"6900">>), Some(<<>>), Null, Undefined}

SignInputs ==
  UNION { {s \in [1..n -> {"out_trade_no", "total_fee", "transaction_id"} \X SignValues] :
             \A i, j \in 1..n : i # j => s[i][1] # s[j][1]} : n \in 0..MaxParams }

InitSign ==
  /\ now = 1
  /\ orders = <<InitialOrder("pending")>>
  /\ users = InitialUsers("pending")
  /\ cb = [p \in Procs |-> Idle]
  /\ delivered = 0
  /\ view = NoView
  /\ \E a, b \in SignInputs :
       sig = [a |-> a, b |-> b, key |-> YUNGOU_API_KEY, out |-> <<>>]
  /\ failing = TRUE
  /\ cr = [c \in CreateProcs |-> IdleCreate]

\* calculateSign is applied to both objects with the same key
Sign ==
  /\ sig.out = <<>>
  /\ sig' = [sig EXCEPT !.out = <<calculateSign(sig.a, sig.key), calculateSign(sig.b, sig.key)>>]
  /\ UNCHANGED <<now, orders, users, cb, delivered, view, failing, cr>>

SpecSign == InitSign /\ [][Sign]_vars

\* ---------------------------------------------------------- specifications
\* the callbacks, handled concurrently
Next ==
  \/ \E p \in Procs : Deliver(p)
  \/ \E p \in Procs : VerifyAndParse(p)
  \/ \E p \in Procs : FindOrder(p)
  \/ \E p \in Procs : SaveOrder(p)
  \/ \E p \in Procs : GetUser(p)
  \/ \E p \in Procs : SaveUser(p)

Spec == Init /\ [][Next]_vars

\* deliveries that do not overlap: each starts after the previous one answered
DeliverSeq(p) == Deliver(p) /\ \A q \in Procs : Free(q)

NextSeq ==
  \/ \E p \in Procs : DeliverSeq(p)
  \/ \E p \in Procs : VerifyAndParse(p)
  \/ \E p \in Procs : FindOrder(p)
  \/ \E p \in Procs : SaveOrder(p)
  \/ \E p \in Procs : GetUser(p)
  \/ \E p \in Procs : SaveUser(p)

SpecSeq == Init /\ [][NextSeq]_vars

\* createOrder beside the callbacks.  The stored order has just been
\* created: the clock still reads the millisecond that is in its order number.
InitCreate ==
  /\ now = 0
  /\ \E st \in Statuses :
       /\ orders = <<InitialOrder(st)>>
       /\ users = InitialUsers(st)
  /\ cb = [p \in Procs |-> Idle]
  /\ delivered = 0
  /\ view = NoView
  /\ sig = NoSig
  /\ failing = TRUE
  /\ cr = [c \in CreateProcs |-> IdleCreate]

\* the provider notifies the payment of an order of the store, after its
\* previous notification was answered
DeliverPayment(p) ==
  /\ delivered < MaxCallbacks
  /\ \A q \in Procs : Free(q)
  /\ \A q \in Procs : q < p => ~Free(q)
  /\ \E no \in StoredNos :
       cb' = [cb EXCEPT ![p] =
                [Idle EXCEPT !.pc = "received",
                             !.body = Some(Notification(no, Some(EncodeAttach("u1", "lifetime")),
                                                        ProviderSign(no)))]]
  /\ delivered' = delivered + 1
  /\ UNCHANGED <<now, orders, users, view, sig, failing, cr>>

NextCreate ==
  \/ \E p \in Procs : DeliverPayment(p)
  \/ \E p \in Procs : VerifyAndParse(p)
  \/ \E p \in Procs : FindOrder(p)
  \/ \E p \in Procs : SaveOrder(p)
  \/ \E p \in Procs : GetUser(p)
  \/ \E p \in Procs : SaveUser(p)
  \/ \E c \in CreateProcs : CreateOrder(c)
  \/ \E c \in CreateProcs : AxiosPost(c)
  \/ \E c \in CreateProcs : SaveNewOrder(c)
  \/ \E c \in CreateProcs : SaveNewOrderFails(c)

SpecCreate == InitCreate /\ [][NextCreate]_vars

\* queryOrder on the stored order, before and after the callbacks for it,
\* which are handled one after the other
NextQuery ==
  \/ \E p \in Procs : DeliverSeq(p)
  \/ \E p \in Procs : VerifyAndParse(p)
  \/ \E p \in Procs : FindOrder(p)
  \/ \E p \in Procs : SaveOrder(p)
  \/ \E p \in Procs : GetUser(p)
  \/ \E p \in Procs : SaveUser(p)
  \/ QueryOrder
  \/ QueryFirst
  \/ QueryFirstFails

SpecQuery == Init /\ [][NextQuery]_vars

\* the callbacks with a store whose calls may fail
NextFail ==
  \/ \E p \in Procs : Deliver(p)
  \/ \E p \in Procs : VerifyAndParse(p)
  \/ \E p \in Procs : FindOrder(p)
  \/ \E p \in Procs : FindOrderFails(p)
  \/ \E p \in Procs : SaveOrder(p)
  \/ \E p \in Procs : SaveOrderFails(p)
  \/ \E p \in Procs : GetUser(p)
  \/ \E p \in Procs : GetUserFails(p)
  \/ \E p \in Procs : SaveUser(p)
  \/ \E p \in Procs : SaveUserFails(p)

SpecFail == Init /\ [][NextFail]_vars

\* ------------------------------------------------- redelivery by the provider
\* the notifications of the payment for the stored order: validly signed,
\* with an attach that names a user and a product
PaymentBodies ==
  { Notification(OutTradeNo("u1", 0), a, ProviderSign(OutTradeNo("u1", 0))) :
      a \in { Some(EncodeAttach("u1", "lifetime")), Some(EncodeAttach("u2", "monthly")),
              Some(EncodeAttach(GhostUser, "lifetime")) } }

InitLive ==
  /\ now = 1
  /\ orders = <<InitialOrder("pending")>>
  /\ users = InitialUsers("pending")
  /\ cb = [p \in Procs |-> Idle]
  /\ delivered = 0
  /\ view = NoView
  /\ sig = NoSig
  /\ failing = TRUE
  /\ cr = [c \in CreateProcs |-> IdleCreate]

\* the provider delivers the notification, again after each answer FAIL and
\* possibly while an earlier delivery is still being handled, until it has
\* been answered SUCCESS; delivered stops counting at MaxCallbacks
ProviderDelivers(p) ==
  /\ Free(p)
  /\ \A q \in Procs : q < p => ~Free(q)
  /\ \A q \in Procs : cb[q].pc # "received"
  /\ \A q \in Procs : cb[q].pc = "done" => cb[q].res = "FAIL"
  /\ \E body \in PaymentBodies :
       cb' = [cb EXCEPT ![p] = [Idle EXCEPT !.pc = "received", !.body = Some(body)]]
  /\ delivered' = IF delivered < MaxCallbacks THEN delivered + 1 ELSE delivered
  /\ UNCHANGED <<now, orders, users, view, sig, failing, cr>>

\* the fault of the store is repaired: from now on its calls succeed
StoreRecovers ==
  /\ failing
  /\ failing' = FALSE
  /\ UNCHANGED <<now, orders, users, cb, delivered, view, sig, cr>>

NextLive ==
  \/ \E p \in Procs : ProviderDelivers(p)
  \/ \E p \in Procs : VerifyAndParse(p)
  \/ \E p \in Procs : FindOrder(p)
  \/ \E p \in Procs : FindOrderFails(p)
  \/ \E p \in Procs : SaveOrder(p)
  \/ \E p \in Procs : SaveOrderFails(p)
  \/ \E p \in Procs : GetUser(p)
  \/ \E p \in Procs : GetUserFails(p)
  \/ \E p \in Procs : SaveUser(p)
  \/ \E p \in Procs : SaveUserFails(p)
  \/ StoreRecovers

\* every awaited call is answered, successfully or not; the provider keeps
\* its promise to redeliver; the fault of the store is repaired at some time
SpecLive ==
  /\ InitLive /\ [][NextLive]_vars
  /\ WF_vars(\E p \in Procs : ProviderDelivers(p))
  /\ WF_vars(\E p \in Procs : VerifyAndParse(p))
  /\ WF_vars(\E p \in Procs : FindOrder(p))
  /\ WF_vars(\E p \in Procs : SaveOrder(p))
  /\ WF_vars(\E p \in Procs : GetUser(p))
  /\ WF_vars(\E p \in Procs : SaveUser(p))
  /\ WF_vars(StoreRecovers)

\* ------------------------------------------------------ terms of the claims
\* invocation p takes a step that leaves the position `at`
Leaves(p, at) == cb[p].pc = at /\ cb'[p].pc # at

Answers(p, token) == cb'[p].pc = "done" /\ cb'[p].res = token

StoresUnchanged == orders' = orders /\ users' = users

\* how often order id i occurs in the vipOrderIds of all users
Occurrences(i) ==
  LET inList(u) == {k \in DOMAIN users[u].vipOrderIds : users[u].vipOrderIds[k] = i}
      RECURSIVE Sum(_)
      Sum(us) == IF us = {} THEN 0
                 ELSE LET u == CHOOSE x \in us : TRUE
                      IN  Cardinality(inList(u)) + Sum(us \ {u})
  IN  Sum(DOMAIN users)

\* the signature of section 4.1 over out_trade_no, transaction_id and
\* total_fee: keys in byte-wise order, then the secret
ExpectedSign(body) ==
  LET pair(k, v) == IF v \in {Undefined, Null, Some(<<>>)} THEN <<>>
                    ELSE << <<k, "=">> \o v[1] >>
      pairs == pair("out_trade_no", body.out_trade_no)
                 \o pair("total_fee", body.total_fee)
                 \o pair("transaction_id", body.transaction_id)
  IN  [preimage |-> Join(pairs, "&") \o <<"&", "key", "=">> \o YUNGOU_API_KEY,
       altered |-> FALSE]

\* section 4.2: decode succeeds on structured data with both fields
Decodable(attach) ==
  /\ attach # Undefined /\ attach # Null
  /\ attach[1].json = "object"
  /\ attach[1].userId # Undefined
  /\ attach[1].productType # Undefined

\* a callback has paid order i: it is paid, and not by the payment tx0 of
\* the earlier run
PaidByCallback(i) ==
  orders[i].status = "paid" /\ orders[i].transactionId # Some(<<"tx0">>)

\* ------------------------------------------------------------------ claims

\* C1: for N callbacks handled concurrently for the same pending order with
\* identical valid parameters, exactly one pending -> paid transition is
\* committed to the order store (every committed order write finds the stored
\* order pending), and every callback that found the order, for a user who
\* has a record, answers SUCCESS.
C1_ExactlyOneTransition ==
  [][\A p \in Procs :
       /\ (/\ Leaves(p, "saveOrder")
           /\ cb[p].userId # Undefined /\ cb[p].productType # Undefined)
            => orders[cb[p].order[1].id].status = "pending"
       /\ (/\ cb[p].pc \in {"saveOrder", "getUser", "saveUser"} /\ cb'[p].pc = "done"
           /\ (cb[p].pc # "saveUser"
                 => (cb[p].userId # Undefined /\ cb[p].userId[1] \in DOMAIN users)))
            => cb'[p].res = "SUCCESS"]_vars

\* C2: when callbacks are handled one after the other, an order is written
\* once, when it goes from pending to paid, and never again; its id is never
\* in the users' vipOrderIds more than once and is there exactly once when a
\* grant is saved; the callback that pays the order, for a user who has a
\* record, and every later callback that finds it paid answer SUCCESS.
C2_SequentialIdempotent ==
  /\ [](\A i \in DOMAIN orders : Occurrences(i) <= 1)
  /\ [][/\ \A i \in DOMAIN orders : orders[i].status = "paid" => orders'[i] = orders[i]
        /\ \A p \in Procs :
             /\ Leaves(p, "saveOrder") =>
                  /\ orders[cb[p].order[1].id].status = "pending"
                  /\ orders'[cb[p].order[1].id].status = "paid"
             /\ Leaves(p, "saveUser") =>
                  /\ \E i \in DOMAIN orders :
                       /\ PaidByCallback(i)
                       /\ Occurrences(i) = 0
                       /\ Occurrences(i)' = 1
                  /\ Answers(p, "SUCCESS")
             /\ (/\ cb[p].pc \in {"saveOrder", "getUser"} /\ cb'[p].pc = "done"
                 /\ cb[p].userId # Undefined /\ cb[p].userId[1] \in DOMAIN users)
                  => cb'[p].res = "SUCCESS"
             /\ (/\ Leaves(p, "findOrder")
                 /\ \E i \in DOMAIN orders :
                      Some(orders[i].outTradeNo) = cb[p].out_trade_no
                 /\ \A i \in DOMAIN orders :
                      Some(orders[i].outTradeNo) = cb[p].out_trade_no
                        => orders[i].status = "paid")
                  => Answers(p, "SUCCESS") /\ StoresUnchanged]_vars

\* an order paid by a callback whose id was granted once, and a later callback
\* that found it paid and answered SUCCESS
C2_Witness ==
  /\ delivered = 2
  /\ \E p \in Procs : cb[p].pc = "done" /\ cb[p].log = "alreadyPaid" /\ cb[p].res = "SUCCESS"
  /\ \E i \in DOMAIN orders : PaidByCallback(i) /\ Occurrences(i) = 1

\* C3: handled without overlap, a callback with a correct signature and a
\* decodable attachment for a pending order whose user record exists pays the
\* order with the callback's transaction_id, then writes the attachment's
\* productType as the user's vipType, null as vipExpireTime when productType
\* is lifetime, and the order id into vipOrderIds, and answers SUCCESS.
C3_PaymentGrantsVip ==
  [][\A p \in Procs :
       /\ (/\ Leaves(p, "received")
           /\ cb[p].body[1].sign = Some(ExpectedSign(cb[p].body[1]))
           /\ Decodable(cb[p].body[1].attach))
            => /\ cb'[p].pc = "findOrder"
               /\ cb'[p].out_trade_no = cb[p].body[1].out_trade_no
               /\ cb'[p].transaction_id = cb[p].body[1].transaction_id
               /\ cb'[p].userId = cb[p].body[1].attach[1].userId
               /\ cb'[p].productType = cb[p].body[1].attach[1].productType
       /\ (/\ Leaves(p, "findOrder")
           /\ \E i \in DOMAIN orders : Some(orders[i].outTradeNo) = cb[p].out_trade_no
           /\ \A i \in DOMAIN orders :
                Some(orders[i].outTradeNo) = cb[p].out_trade_no
                  => orders[i].status = "pending")
            => /\ cb'[p].pc = "saveOrder"
               /\ Some(orders[cb'[p].order[1].id].outTradeNo) = cb[p].out_trade_no
               /\ cb'[p].order[1].transactionId = cb[p].transaction_id
               /\ cb'[p].userId = cb[p].userId
               /\ cb'[p].productType = cb[p].productType
       /\ Leaves(p, "saveOrder")
            => /\ orders'[cb[p].order[1].id].status = "paid"
               /\ orders'[cb[p].order[1].id].transactionId = cb[p].order[1].transactionId
               /\ orders'[cb[p].order[1].id].paidAt # Undefined
               /\ cb'[p].pc = "getUser"
               /\ cb'[p].order[1].id = cb[p].order[1].id
               /\ cb'[p].userId = cb[p].userId
               /\ cb'[p].productType = cb[p].productType
       /\ (/\ Leaves(p, "getUser")
           /\ cb[p].userId # Undefined
           /\ cb[p].userId[1] \in DOMAIN users)
            => /\ cb'[p].pc = "saveUser"
               /\ cb'[p].user[1].id = cb[p].userId[1]
               /\ cb'[p].user[1].vipType = cb[p].productType
               /\ cb'[p].user[1].expireSet = (cb[p].productType = Some("lifetime"))
               /\ \E k \in DOMAIN cb'[p].user[1].vipOrderIds :
                    cb'[p].user[1].vipOrderIds[k] = cb[p].order[1].id
       /\ Leaves(p, "saveUser")
            => LET local == cb[p].user[1]
               IN  /\ users'[local.id].vipType = local.vipType
                   /\ local.expireSet => users'[local.id].vipExpireTime = Null
                   /\ users'[local.id].vipOrderIds = local.vipOrderIds
                   /\ users'[local.id].vipPurchaseTime # Undefined
                   /\ LET i == local.vipOrderIds[Len(local.vipOrderIds)]
                      IN  orders'[i].status = "paid"
                   /\ Answers(p, "SUCCESS")]_vars

\* the scenario of section 8: the order is paid with tx1, u1 holds a lifetime
\* grant with no expiry and the order's id, and the callback answered SUCCESS
C3_Witness ==
  /\ \E p \in Procs : cb[p].pc = "done" /\ cb[p].log = "vipGranted" /\ cb[p].res = "SUCCESS"
  /\ PaidByCallback(1) /\ orders[1].transactionId = Some(TransactionId)
  /\ users["u1"].vipType = Some("lifetime")
  /\ users["u1"].vipExpireTime = Null
  /\ users["u1"].vipOrderIds = <<1>>

\* C4: an order's status changes only from pending to paid, in every step of
\* createOrder and of the callback handler, and no order is removed.
C4_StatusOnlyPendingToPaid ==
  [][/\ Len(orders') >= Len(orders)
     /\ \A i \in DOMAIN orders :
          orders'[i].status # orders[i].status
            => orders[i].status = "pending" /\ orders'[i].status = "paid"]_vars

\* a callback has paid the order that createOrder saved, while the other
\* order of the store is not pending
C4_Witness ==
  /\ Len(orders) = 2
  /\ \E i, j \in DOMAIN orders :
       /\ PaidByCallback(i)
       /\ orders[j].status \in {"cancelled", "expired"}
  /\ \E p \in Procs : cb[p].pc = "done" /\ cb[p].res = "SUCCESS"

\* C5: in every reachable state of the order store, an order has transactionId
\* and paidAt set if and only if its status is paid.
C5_PaidFieldsIffPaid ==
  \A i \in DOMAIN orders :
    \/ /\ orders[i].status = "paid"
       /\ orders[i].transactionId # Undefined
       /\ orders[i].paidAt # Undefined
    \/ /\ orders[i].status # "paid"
       /\ orders[i].transactionId = Undefined
       /\ orders[i].paidAt = Undefined

\* C6: a callback whose sign differs from the signature computed over
\* out_trade_no, transaction_id and total_fee with the shared secret is
\* answered FAIL and leaves the order store and the user store unchanged.
C6_BadSignRejected ==
  [][\A p \in Procs :
       (/\ Leaves(p, "received")
        /\ cb[p].body[1].sign # Some(ExpectedSign(cb[p].body[1])))
         => Answers(p, "FAIL") /\ StoresUnchanged]_vars

\* a callback for a pending order with a well-formed attach was answered FAIL
\* for its signature
C6_Witness ==
  /\ \E p \in Procs : cb[p].pc = "done" /\ cb[p].log = "signFail" /\ cb[p].res = "FAIL"
  /\ orders[1].status = "pending"

\* C7: a callback with a valid signature whose out_trade_no matches no order
\* of the store is answered FAIL and changes neither store.
C7_UnknownOrderRejected ==
  [][\A p \in Procs :
       (/\ Leaves(p, "findOrder")
        /\ \A i \in DOMAIN orders : Some(orders[i].outTradeNo) # cb[p].out_trade_no)
         => Answers(p, "FAIL") /\ StoresUnchanged]_vars

\* a validly signed callback was answered FAIL because no order has its number
C7_Witness ==
  \E p \in Procs : cb[p].pc = "done" /\ cb[p].log = "orderNotFound" /\ cb[p].res = "FAIL"

\* C8: a callback with a valid signature and a decodable attachment for an
\* order that is already paid changes no field of any order or user, also
\* when its transaction_id differs from the stored one, and answers SUCCESS.
C8_AlreadyPaidUntouched ==
  [][\A p \in Procs :
       (/\ Leaves(p, "findOrder")
        /\ \E i \in DOMAIN orders : Some(orders[i].outTradeNo) = cb[p].out_trade_no
        /\ \A i \in DOMAIN orders :
             Some(orders[i].outTradeNo) = cb[p].out_trade_no
               => orders[i].status = "paid")
         => Answers(p, "SUCCESS") /\ StoresUnchanged]_vars

\* a callback carrying tx1 was answered SUCCESS for the order paid with tx0,
\* which still holds tx0
C8_Witness ==
  /\ \E p \in Procs : cb[p].pc = "done" /\ cb[p].log = "alreadyPaid" /\ cb[p].res = "SUCCESS"
  /\ orders[1].status = "paid"
  /\ orders[1].transactionId = Some(<<"tx0">>)
  /\ orders[1].paidAt = Some(0)

\* C9: a callback with a valid signature whose attach cannot be decoded (it
\* is not parseable, or parses but lacks userId or productType) is answered
\* FAIL and leaves every order and user untouched.
C9_UndecodableAttachRejected ==
  [][\A p \in Procs :
       (/\ Leaves(p, "received")
        /\ cb[p].body[1].sign = Some(ExpectedSign(cb[p].body[1]))
        /\ ~Decodable(cb[p].body[1].attach))
         => Answers(p, "FAIL") /\ StoresUnchanged]_vars

\* C10: when the order of a valid callback has been paid and no user record
\* exists for the decoded userId, the order stays paid, no user record and no
\* order is changed, and the handler answers SUCCESS.
C10_MissingUserStillAcknowledged ==
  [][\A p \in Procs :
       (/\ Leaves(p, "getUser")
        /\ (cb[p].userId = Undefined \/ cb[p].userId[1] \notin DOMAIN users))
         => /\ Answers(p, "SUCCESS")
            /\ StoresUnchanged
            /\ PaidByCallback(cb[p].order[1].id)]_vars

\* C11: every invocation of the callback handler, on every path including a
\* failing store call and an unexpected internal error, ends with one response
\* whose body is SUCCESS or FAIL: no response is sent while it is in progress,
\* and the step that ends it sends one of the two tokens (no error escapes
\* without a response).
C11_AlwaysAnswersToken ==
  \A p \in Procs :
    /\ cb[p].pc \in {"received", "findOrder", "saveOrder", "getUser", "saveUser"}
         => cb[p].res = ""
    /\ cb[p].pc = "done" => cb[p].res \in {"SUCCESS", "FAIL"}

\* one invocation was answered FAIL from the outer catch after a store call
\* failed, another after the TypeError of destructuring a null attach
C11_Witness ==
  /\ \E p \in Procs :
       /\ cb[p].pc = "done" /\ cb[p].res = "FAIL"
       /\ cb[p].log \in {"findOrderFailed", "saveOrderFailed", "getUserFailed", "saveUserFailed"}
  /\ \E p \in Procs :
       cb[p].pc = "done" /\ cb[p].res = "FAIL" /\ cb[p].log = "TypeError"

\* C12: queryOrder(orderId, requesting user) returns the order's status,
\* productType, amount and paidAt when, and only when, the stored order's
\* userId is the requesting user; for an order of another user and for an id
\* that is not in the store it throws the not-found error, when the store
\* answers the query; and in every case, also when the store does not answer,
\* it changes no order and no user.
C12_QueryOwnedOnlyReadOnly ==
  [][view' # view => StoresUnchanged]_vars
  /\ [][(view' # view /\ view'.out # Undefined) =>
       LET r == view'
           out == view'.out[1]
       IN  /\ out.value # Undefined =>
                /\ r.orderId # Undefined /\ r.currentUser # Undefined
                /\ r.orderId[1] \in DOMAIN orders
                /\ orders[r.orderId[1]].userId = r.currentUser[1]
           /\ (/\ r.orderId # Undefined /\ r.currentUser # Undefined
               /\ out.thrown # "queryOrderFailed") =>
                IF /\ r.orderId[1] \in DOMAIN orders
                   /\ orders[r.orderId[1]].userId = r.currentUser[1]
                THEN LET o == orders[r.orderId[1]]
                     IN  /\ out.thrown = ""
                         /\ out.value[1].status = o.status
                         /\ out.value[1].productType = o.productType
                         /\ out.value[1].amount = o.amount
                         /\ out.value[1].paidAt =
                              IF o.paidAt = Undefined THEN Null
                              ELSE Some(<<"ISO8601", o.paidAt[1]>>)
                ELSE out.thrown = "orderNotFound" /\ out.value = Undefined]_vars

\* u2 asked for the order of u1 that a callback has paid, and was told that
\* there is no such order
C12_Witness ==
  /\ view.n = 1
  /\ view.orderId = Some(1) /\ view.currentUser = Some("u2")
  /\ view.out # Undefined
  /\ view.out[1].thrown = "orderNotFound"
  /\ PaidByCallback(1) /\ orders[1].userId = "u1"

\* the entries of a params object that the canonical form of section 4.1
\* keeps: those whose value is not the empty string, null or absent
NonEmptyEntries(params) ==
  {params[i] : i \in {j \in DOMAIN params : params[j][2] \notin {Some(<<>>), Null, Undefined}}}

\* C13: calculateSign does not depend on the insertion order of params: two
\* params objects with the same non-empty key/value entries (entries whose
\* value is the empty string, null or absent being dropped) and the same
\* secret get the same signature.
C13_SignOrderIndependent ==
  (sig.out # <<>> /\ NonEmptyEntries(sig.a) = NonEmptyEntries(sig.b))
    => sig.out[1] = sig.out[2]

\* two objects with the same two entries in opposite insertion order, one of
\* them about a key that sorts differently, were given the same signature
C13_Witness ==
  /\ sig.out # <<>>
  /\ sig.a = << <<"transaction_id", Some(<<"6900">>)>>, <<"out_trade_no", Some(<<"6900">>)>> >>
  /\ sig.b = << <<"out_trade_no", Some(<<"6900">>)>>, <<"transaction_id", Some(<<"6900">>)>> >>
  /\ sig.out[1] = sig.out[2]

\* C14: a callback with a valid signature and a decodable attachment for an
\* order whose status is cancelled or expired is answered FAIL and leaves
\* every order and every user unchanged.
C14_CancelledExpiredRejected ==
  [][\A p \in Procs :
       (/\ Leaves(p, "findOrder")
        /\ cb[p].userId # Undefined /\ cb[p].productType # Undefined
        /\ \E i \in DOMAIN orders : Some(orders[i].outTradeNo) = cb[p].out_trade_no
        /\ \A i \in DOMAIN orders :
             Some(orders[i].outTradeNo) = cb[p].out_trade_no
               => orders[i].status \in {"cancelled", "expired"})
         => Answers(p, "FAIL") /\ StoresUnchanged]_vars

\* C15: an invocation that has committed the order write (it is past
\* order.save, at the user lookup or the user save) answers SUCCESS, whatever
\* happens in the entitlement step: the user record is missing, the lookup
\* fails or the save fails.
C15_PaidThenAcknowledged ==
  [][\A p \in Procs :
       (cb[p].pc \in {"getUser", "saveUser"} /\ cb'[p].pc = "done")
         => cb'[p].res = "SUCCESS"]_vars

\* C16: when the order save of a callback fails (the handler ends at
\* order.save), the callback is answered FAIL, not SUCCESS, the stored order
\* is as it was before the save, still pending when nobody else paid it, and
\* no user record is changed.
C16_FailedSaveRejected ==
  [][\A p \in Procs :
       (cb[p].pc = "saveOrder" /\ cb'[p].pc = "done")
         => /\ Answers(p, "FAIL")
            /\ StoresUnchanged
            /\ orders'[cb[p].order[1].id].status = orders[cb[p].order[1].id].status]_vars

\* the only callback delivered was answered FAIL at the order save; the
\* order is still pending and nothing was granted
C16_Witness ==
  /\ delivered = 1
  /\ \E p \in Procs : cb[p].pc = "done" /\ cb[p].log = "saveOrderFailed" /\ cb[p].res = "FAIL"
  /\ orders[1].status = "pending"
  /\ \A u \in DOMAIN users : users[u].vipOrderIds = <<>>

IsPrefix(s, t) == Len(s) <= Len(t) /\ SubSeq(t, 1, Len(s)) = s

\* C17: under any interleaving of callbacks, a user's vipOrderIds is
\* append-only: every step leaves the previous sequence as a prefix of the new
\* one, the save of a grant makes it one entry longer, and no order id is in
\* it more than once.
C17_VipOrderIdsAppendOnly ==
  /\ [](\A u \in DOMAIN users : \A j, k \in DOMAIN users[u].vipOrderIds :
          j # k => users[u].vipOrderIds[j] # users[u].vipOrderIds[k])
  /\ [][/\ \A u \in DOMAIN users : IsPrefix(users[u].vipOrderIds, users'[u].vipOrderIds)
        /\ \A p \in Procs :
             Leaves(p, "saveUser") =>
               Len(users'[cb[p].user[1].id].vipOrderIds)
                 = Len(users[cb[p].user[1].id].vipOrderIds) + 1]_vars

\* C18: whenever a callback that passed signature verification grants an
\* entitlement for order O (the last id of the list it saves), the user record
\* it writes is the one of O's userId and the vipType it writes is O's
\* productType.
C18_GrantGoesToOrderOwner ==
  [][\A p \in Procs :
       Leaves(p, "saveUser") =>
         LET local == cb[p].user[1]
             o == orders[local.vipOrderIds[Len(local.vipOrderIds)]]
         IN  /\ local.id = o.userId
             /\ users'[o.userId].vipType = Some(o.productType)]_vars

\* C19: after any sequence of createOrder calls, also two by the same user
\* with no clock advance between them, no two orders of the store have the
\* same outTradeNo, so the callback's lookup by out_trade_no matches at most
\* one order.
C19_OutTradeNoUnique ==
  /\ \A i, j \in DOMAIN orders : i # j => orders[i].outTradeNo # orders[j].outTradeNo
  /\ \A p \in Procs :
       cb[p].pc = "findOrder" => Cardinality(Matching(cb[p].out_trade_no)) <= 1

\* C20: when the provider delivers a valid callback for a pending order again
\* after each answer FAIL, every awaited store call is answered and the store
\* stops failing at some time, then the order is eventually paid and the
\* provider eventually receives SUCCESS; and every callback invocation that
\* has started ends with an answer.
C20_RetryLeadsToPaid ==
  /\ <>(/\ orders[1].status = "paid"
        /\ \E p \in Procs : cb[p].pc = "done" /\ cb[p].res = "SUCCESS")
  /\ \A p \in Procs : (cb[p].pc = "received") ~> (cb[p].pc = "done")

\* one delivery was answered FAIL because the order save failed, and a later
\* delivery has paid the order and was answered SUCCESS
C20_Witness ==
  /\ orders[1].status = "paid"
  /\ \E p, q \in Procs :
       /\ cb[p].pc = "done" /\ cb[p].res = "FAIL" /\ cb[p].log = "saveOrderFailed"
       /\ cb[q].pc = "done" /\ cb[q].res = "SUCCESS"

====
